---------------------------- MODULE Spec2Model ----------------------------
(***************************************************************************)
(* Model of src/Scraper.py (DamaDam Master Bot): the ProfilesData upsert   *)
(* of class Sheets (write_profile and the helpers it calls), its NickList, *)
(* RunList and Dashboard sheets, the AdaptiveDelay controller, and the     *)
(* loop of main that drives them.                                          *)
(*                                                                         *)
(* Cell values are Python strings, modelled as sequences of one-character  *)
(* strings so that strip(), lower(), replace() and the regular expressions *)
(* of the source are computed, not assumed.  Column names, status words    *)
(* and the names of store calls are dictionary keys or tags and are kept   *)
(* as atomic strings.                                                      *)
(*                                                                         *)
(* Delays are Python floats, modelled in fixed point: one unit is one      *)
(* microsecond, products are rounded down.                                 *)
(***************************************************************************)
EXTENDS Integers, Sequences, FiniteSets, TLC

VARIABLES
    ws,            \* ProfilesData below the header: ws[i] is sheet row i + 1
    notes,         \* notes[i]: the cell notes of sheet row i + 1, column index -> text
    existing,      \* Sheets.existing: key -> [row, data]
    logged,        \* what _load_existing wrote with log_msg when it last ran
    tags_mapping,  \* Sheets.tags_mapping: key -> tag text
    now,           \* the clock read by get_pkt_time(), in days
    op,            \* the last write_profile call: its input, what it read, what it returned
    calls,         \* the store calls made by the last call on Sheets, in order
    nOps,          \* number of calls on Sheets and run starts so far
    nFailures,     \* number of store calls that raised so far
    base_min,      \* AdaptiveDelay.base_min
    base_max,      \* AdaptiveDelay.base_max
    min_delay,     \* AdaptiveDelay.min_delay
    max_delay,     \* AdaptiveDelay.max_delay
    hits,          \* AdaptiveDelay.hits
    last,          \* AdaptiveDelay.last
    adjusted,      \* the time of the last call that set min_delay and max_delay
    batch_size,    \* AdaptiveDelay.batch_size
    clock,         \* time.time(), in seconds
    slept,         \* the delay of the last sleep()
    nSteps,        \* number of AdaptiveDelay calls so far
    nick_list_ws,        \* NickList below the header: nick_list_ws[i] is sheet row i + 1
    nick_list_existing,  \* Sheets.nick_list_existing: key -> [row, times, first, last]
    nick_list_next_row,  \* Sheets.nick_list_next_row
    runlist,       \* RunList below the header
    dashboard,     \* Dashboard below the header
    metrics,       \* main: the metrics of the run
    processed,     \* main: processed
    success_count, \* main: success_count
    idx,           \* main: the position in online_nicknames, 0 before the loop
    events,        \* main: the store calls, waits and AdaptiveDelay calls of the
                   \* last pass through the loop, in order
    MAX_PROFILES_PER_RUN,  \* the limit read from the environment, 0 for none
    error          \* main: the kind of exception that a store call raised in the
                   \* last pass through the loop, "none" if none did

sheetVars == <<ws, notes, existing, logged, tags_mapping, now, op, calls, nOps, nFailures>>
delayVars == <<base_min, base_max, min_delay, max_delay, hits, last, adjusted,
               batch_size, clock, slept, nSteps>>
trackVars == <<nick_list_ws, nick_list_existing, nick_list_next_row, runlist, dashboard>>
mainVars == <<metrics, processed, success_count, idx, events, error, MAX_PROFILES_PER_RUN>>
runVars == <<trackVars, mainVars>>
vars == <<ws, notes, existing, logged, tags_mapping, now, op, calls, nOps, nFailures,
          base_min, base_max, min_delay, max_delay, hits, last, adjusted,
          batch_size, clock, slept, nSteps,
          nick_list_ws, nick_list_existing, nick_list_next_row, runlist, dashboard,
          metrics, processed, success_count, idx, events, error, MAX_PROFILES_PER_RUN>>

----------------------------------------------------------------------------
(* Bounds of the model.                                                    *)

MaxOps == 2
MaxFailures == 1
MaxSteps == 6
MaxClock == 22
MaxCalls == 3
MaxRecords == 12

----------------------------------------------------------------------------
(* Python string operations on sequences of characters.                    *)

Min(a, b) == IF a <= b THEN a ELSE b
Max(a, b) == IF a >= b THEN a ELSE b

NBSP == "_"        \* stands for the character '\xa0'
WHITESPACE == {" ", "\t", "\n", NBSP}     \* str.isspace() and the regex class \s

UPPERCASE == <<"A","B","C","D","E","F","G","H","I","J","K","L","M",
               "N","O","P","Q","R","S","T","U","V","W","X","Y","Z">>
LOWERCASE == <<"a","b","c","d","e","f","g","h","i","j","k","l","m",
               "n","o","p","q","r","s","t","u","v","w","x","y","z">>
DIGITS == <<"0","1","2","3","4","5","6","7","8","9">>

LowerChar(c) ==
    IF \E i \in 1..26 : UPPERCASE[i] = c
    THEN LOWERCASE[CHOOSE i \in 1..26 : UPPERCASE[i] = c]
    ELSE c

\* str.lower()
Lower(s) == [i \in 1..Len(s) |-> LowerChar(s[i])]

\* str.lstrip() / str.rstrip() / str.strip()
RECURSIVE LStrip(_)
LStrip(s) == IF s # <<>> /\ Head(s) \in WHITESPACE THEN LStrip(Tail(s)) ELSE s

RECURSIVE RStrip(_)
RStrip(s) ==
    IF s # <<>> /\ s[Len(s)] \in WHITESPACE THEN RStrip(SubSeq(s, 1, Len(s) - 1)) ELSE s

Strip(s) == RStrip(LStrip(s))

StartsWith(s, p) == Len(p) <= Len(s) /\ SubSeq(s, 1, Len(p)) = p

\* sub in s
Contains(s, sub) == \E i \in 1..(Len(s) - Len(sub) + 1) : SubSeq(s, i, i + Len(sub) - 1) = sub

\* s.replace(old, new), old non-empty: leftmost occurrences, not overlapping
RECURSIVE Replace(_, _, _)
Replace(s, old, new) ==
    IF s = <<>> THEN <<>>
    ELSE IF StartsWith(s, old) THEN new \o Replace(SubSeq(s, Len(old) + 1, Len(s)), old, new)
    ELSE <<Head(s)>> \o Replace(Tail(s), old, new)

\* re.sub(r"\s+", " ", s)
RECURSIVE CollapseWhitespace(_)
CollapseWhitespace(s) ==
    IF s = <<>> THEN <<>>
    ELSE IF Head(s) \in WHITESPACE THEN <<" ">> \o CollapseWhitespace(LStrip(s))
    ELSE <<Head(s)>> \o CollapseWhitespace(Tail(s))

\* s.split(sep)[-1]: what follows the last occurrence of sep, or s itself
RECURSIVE AfterLast(_, _)
AfterLast(s, sep) ==
    IF ~Contains(s, sep) THEN s
    ELSE LET i == CHOOSE k \in 1..Len(s) :
                      /\ SubSeq(s, k, k + Len(sep) - 1) = sep
                      /\ \A j \in 1..(k - 1) : SubSeq(s, j, j + Len(sep) - 1) # sep
         IN AfterLast(SubSeq(s, i + Len(sep), Len(s)), sep)

\* s.split(sep)[0], sep one character
RECURSIVE BeforeFirst(_, _)
BeforeFirst(s, c) ==
    IF s = <<>> \/ Head(s) = c THEN <<>> ELSE <<Head(s)>> \o BeforeFirst(Tail(s), c)

\* str(n) of an integer
RECURSIVE NatToStr(_)
NatToStr(n) == IF n < 10 THEN <<DIGITS[n + 1]>> ELSE NatToStr(n \div 10) \o <<DIGITS[(n % 10) + 1]>>
IntToStr(n) == IF n < 0 THEN <<"-">> \o NatToStr(0 - n) ELSE NatToStr(n)

IsDigit(c) == \E i \in 1..10 : DIGITS[i] = c
DigitValue(c) == (CHOOSE i \in 1..10 : DIGITS[i] = c) - 1

\* int(s) of a non-empty run of digits
RECURSIVE StrToNat(_)
StrToNat(s) == IF s = <<>> THEN 0 ELSE StrToNat(SubSeq(s, 1, Len(s) - 1)) * 10 + DigitValue(s[Len(s)])

----------------------------------------------------------------------------
(* Configuration.                                                          *)

COLUMN_ORDER ==
    <<"IMAGE", "NICK NAME", "TAGS", "LAST POST", "LAST POST TIME", "FRIEND", "CITY",
      "GENDER", "MARRIED", "AGE", "JOINED", "FOLLOWERS", "STATUS",
      "POSTS", "PROFILE LINK", "INTRO", "SOURCE", "DATETIME SCRAP">>

NCOLS == Len(COLUMN_ORDER)

\* COLUMN_TO_INDEX, counted from 1 as TLA+ sequences are (the source counts from 0)
COLUMN_TO_INDEX(name) == CHOOSE i \in 1..NCOLS : COLUMN_ORDER[i] = name

HIGHLIGHT_EXCLUDE_COLUMNS_NoStamp ==
    {"LAST POST", "LAST POST TIME", "JOINED", "PROFILE LINK"}

HIGHLIGHT_EXCLUDE_COLUMNS ==
    {"LAST POST", "LAST POST TIME", "JOINED", "PROFILE LINK", "DATETIME SCRAP"}

\* in the order in which _update_links is taken to visit them
LINK_COLUMNS == <<"IMAGE", "LAST POST", "PROFILE LINK">>

----------------------------------------------------------------------------
(* Literals of the source.                                                 *)

bad ==
    { <<"N","o"," ","c","i","t","y">>,
      <<"N","o","t"," ","s","e","t">>,
      <<"[","N","o"," ","P","o","s","t","s","]">>,
      <<"N","/","A">>,
      <<"n","o"," ","c","i","t","y">>,
      <<"n","o","t"," ","s","e","t">>,
      <<"[","n","o"," ","p","o","s","t","s","]">>,
      <<"n","/","a">>,
      <<"[","N","o"," ","P","o","s","t"," ","U","R","L","]">>,
      <<"[","E","r","r","o","r","]">>,
      <<"n","o"," ","s","e","t">>,
      <<"n","o","n","e">>,
      <<"n","u","l","l">>,
      <<"n","o"," ","a","g","e">> }

s_Before == <<"B","e","f","o","r","e",":"," ">>
s_After == <<"A","f","t","e","r",":"," ">>
s_content == <<"/","c","o","n","t","e","n","t","/">>
s_g == <<"/","g","/">>
s_image_prefix ==
    <<"h","t","t","p","s",":","/","/","d","a","m","a","d","a","m",".","p","k",
      "/","c","o","m","m","e","n","t","s","/","i","m","a","g","e","/">>
s_ago == <<"a","g","o">>

\* the replacements of convert_relative_date_to_absolute, in the order applied
ABBREVIATIONS ==
    << <<  <<"m","i","n","s">>, <<"m","i","n","u","t","e","s">>  >>,
       <<  <<"m","i","n">>,     <<"m","i","n","u","t","e">>      >>,
       <<  <<"s","e","c","s">>, <<"s","e","c","o","n","d","s">>  >>,
       <<  <<"s","e","c">>,     <<"s","e","c","o","n","d">>      >>,
       <<  <<"h","r","s">>,     <<"h","o","u","r","s">>          >>,
       <<  <<"h","r">>,         <<"h","o","u","r">>              >>  >>

\* delta_map, with the unit names in the order of the regular expression's
\* alternation; the clock of the model counts days, so a delta is in days and
\* the units shorter than a day shift the date by none
UNITS ==
    << <<  <<"s","e","c","o","n","d">>, 0    >>,
       <<  <<"m","i","n","u","t","e">>, 0    >>,
       <<  <<"h","o","u","r">>,         0    >>,
       <<  <<"d","a","y">>,             1    >>,
       <<  <<"w","e","e","k">>,         7    >>,
       <<  <<"m","o","n","t","h">>,     30   >>,
       <<  <<"y","e","a","r">>,         365  >>  >>

----------------------------------------------------------------------------
(* Helper functions of the source.                                         *)

\* strftime of a day of the clock: the model writes a date as its day number
DateStr(day) == IntToStr(day)

\* get_pkt_time().strftime("%d-%b-%y %I:%M %p"), to the resolution of the clock
Stamp(day) == DateStr(day)

clean_data(v) ==
    IF v = <<>> THEN <<>>
    ELSE LET w == Replace(Strip(v), <<NBSP>>, <<" ">>)
         IN IF w \in bad THEN <<>> ELSE CollapseWhitespace(w)

RECURSIVE Abbreviate(_, _)
Abbreviate(t, k) ==
    IF k > Len(ABBREVIATIONS) THEN t
    ELSE Abbreviate(Replace(t, ABBREVIATIONS[k][1], ABBREVIATIONS[k][2]), k + 1)

\* the longest run of digits / of whitespace that s starts with
RECURSIVE DigitRun(_)
DigitRun(s) == IF s # <<>> /\ IsDigit(Head(s)) THEN <<Head(s)>> \o DigitRun(Tail(s)) ELSE <<>>

\* r"(\d+)\s*(second|minute|hour|day|week|month|year)s?\s*ago" matched at the
\* start of s: <<amount, index of the unit>>, or <<>> when it does not match.
\* No unit name is a prefix of another and no backtracking into a run of
\* digits or of whitespace can make the rest match, so the match is unique.
MatchAgoAt(s) ==
    LET d == DigitRun(s)
        r1 == LStrip(SubSeq(s, Len(d) + 1, Len(s)))
        us == {u \in 1..Len(UNITS) : StartsWith(r1, UNITS[u][1])}
    IN IF d = <<>> \/ us = {} THEN <<>>
       ELSE LET u == CHOOSE x \in us : TRUE
                r2 == SubSeq(r1, Len(UNITS[u][1]) + 1, Len(r1))
                withS == r2 # <<>> /\ Head(r2) = "s" /\ StartsWith(LStrip(Tail(r2)), s_ago)
                noS == StartsWith(LStrip(r2), s_ago)
            IN IF withS \/ noS THEN <<StrToNat(d), u>> ELSE <<>>

\* re.search: the leftmost position at which the expression matches
SearchAgo(t) ==
    LET at == {i \in 1..Len(t) : MatchAgoAt(SubSeq(t, i, Len(t))) # <<>>}
    IN IF at = {} THEN <<>>
       ELSE MatchAgoAt(SubSeq(t, CHOOSE i \in at : \A j \in at : i <= j, Len(t)))

convert_relative_date_to_absolute(text, today) ==
    IF text = <<>> THEN <<>>
    ELSE LET m == SearchAgo(Abbreviate(Strip(Lower(text)), 1))
         IN IF m = <<>> THEN text ELSE DateStr(today - m[1] * UNITS[m[2]][2])

\* Sheets._clean_url
_clean_url(url) ==
    IF url = <<>> THEN url
    ELSE IF Contains(url, s_content) /\ Contains(url, s_g)
         THEN s_image_prefix \o BeforeFirst(AfterLast(url, s_content), "/")
         ELSE url


----------------------------------------------------------------------------
(* class Sheets: the ProfilesData worksheet and the index of its rows.     *)

COLUMNS == {COLUMN_ORDER[i] : i \in 1..NCOLS}

NoNotes == [i \in {} |-> <<>>]
NoEntries == [k \in {} |-> <<>>]

\* the key under which a row or a nickname is indexed
KeyOf(nick) == Lower(Strip(nick))

\* Sheets._load_existing: rows[i] is sheet row i + 1; a later row replaces an
\* earlier one of the same key
_load_existing(rows) ==
    LET keyed == {i \in 1..Len(rows) : Len(rows[i]) > 1 /\ Strip(rows[i][2]) # <<>>}
        keys == {KeyOf(rows[i][2]) : i \in keyed}
        lastOf(k) == CHOOSE i \in keyed :
                        /\ KeyOf(rows[i][2]) = k
                        /\ \A j \in keyed : KeyOf(rows[j][2]) = k => j <= i
    IN [k \in keys |-> [row |-> lastOf(k) + 1, data |-> rows[lastOf(k)]]]

\* the messages of _load_existing, line 706: the number of entries loaded
_load_existing_log(rows) ==
    <<[message |-> "Loaded existing profiles",
       count |-> Cardinality(DOMAIN _load_existing(rows))]>>

\* Worksheet.insert_row(values, index): the rows from index on move down by one
insert_row_AtEnd(rows, values, index) == Append(rows, values)

insert_row(rows, values, index) ==
    SubSeq(rows, 1, index - 2) \o <<values>> \o SubSeq(rows, index - 1, Len(rows))

\* Worksheet.delete_rows(index): the rows below index move up by one; a row
\* below the last row of data holds nothing
delete_rows(rows, index) ==
    IF index - 1 > Len(rows) THEN rows
    ELSE SubSeq(rows, 1, index - 2) \o SubSeq(rows, index, Len(rows))

\* Worksheet.update(values=[[v]], range_name=cell) of one cell
update_cell(rows, row_idx, col, v) ==
    [rows EXCEPT ![row_idx - 1] = [@ EXCEPT ![col] = v]]

\* write_profile, lines 961-973: the nickname and the normalised profile
Nickname_Unstripped(profile) == profile["NICK NAME"]

Nickname(profile) == Strip(profile["NICK NAME"])

Normalize(profile, tags, today) ==
    LET key == Lower(Nickname(profile))
        p1 == IF profile["LAST POST TIME"] # <<>>
              THEN [profile EXCEPT !["LAST POST TIME"] =
                                       convert_relative_date_to_absolute(@, today)]
              ELSE profile
        p2 == [p1 EXCEPT !["DATETIME SCRAP"] = Stamp(today)]
    IN IF key \in DOMAIN tags /\ tags[key] # <<>>
       THEN [p2 EXCEPT !["TAGS"] = tags[key]]
       ELSE p2

\* write_profile, lines 975-986: the values of the row, in column order
RowValues(profile) ==
    [i \in 1..NCOLS |->
        LET c == COLUMN_ORDER[i]
        IN IF c = "IMAGE" THEN <<>>
           ELSE IF c \in {"PROFILE LINK", "LAST POST"} THEN profile[c]
           ELSE clean_data(profile[c])]

\* write_profile, line 993: the indexed row as a dictionary
Before(entry) ==
    [c \in COLUMNS |->
        LET i == COLUMN_TO_INDEX(c)
        IN IF i <= Len(entry.data) THEN entry.data[i] ELSE <<>>]

\* write_profile, lines 994-1001: the indices of the changed columns, ascending
Changed_AllColumns(before, row_values) ==
    LET differs(i) == before[COLUMN_ORDER[i]] # row_values[i]
    IN SelectSeq([i \in 1..NCOLS |-> i], differs)

Changed_Descending(before, row_values) ==
    LET differs(i) == /\ COLUMN_ORDER[i] \notin HIGHLIGHT_EXCLUDE_COLUMNS
                      /\ before[COLUMN_ORDER[i]] # row_values[i]
        found == SelectSeq([i \in 1..NCOLS |-> i], differs)
    IN [k \in 1..Len(found) |-> found[Len(found) + 1 - k]]

Changed(before, row_values) ==
    LET differs(i) == /\ COLUMN_ORDER[i] \notin HIGHLIGHT_EXCLUDE_COLUMNS
                      /\ before[COLUMN_ORDER[i]] # row_values[i]
    IN SelectSeq([i \in 1..NCOLS |-> i], differs)

\* _add_notes, line 942: the text of one note
NoteText(old, new) == s_Before \o old \o <<"\n">> \o s_After \o new

\* _add_notes, lines 940-955: one request per changed column
NoteRequests_OldRow(row_idx, indices, before, new_vals) ==
    [k \in 1..Len(indices) |->
        [row |-> row_idx + 1, col |-> indices[k],
         note |-> NoteText(before[COLUMN_ORDER[indices[k]]], new_vals[indices[k]])]]

NoteRequests(row_idx, indices, before, new_vals) ==
    [k \in 1..Len(indices) |->
        [row |-> row_idx, col |-> indices[k],
         note |-> NoteText(before[COLUMN_ORDER[indices[k]]], new_vals[indices[k]])]]

\* Spreadsheet.batch_update of updateCells requests with fields "note"
RECURSIVE ApplyNotes(_, _)
ApplyNotes(ns, reqs) ==
    IF reqs = <<>> THEN ns
    ELSE LET r == Head(reqs)
         IN ApplyNotes(
                IF r.row - 1 \in 1..Len(ns)
                THEN [ns EXCEPT ![r.row - 1] =
                         [c \in (DOMAIN @) \cup {r.col} |-> IF c = r.col THEN r.note ELSE @[c]]]
                ELSE ns,
                Tail(reqs))

\* write_profile, line 1013: the row to delete, after the insert above it
OldRow(entry) == IF entry.row >= 2 THEN entry.row + 1 ELSE 3

\* _update_links, lines 921-926: the value written to a link cell, <<>> for none
LinkValue(col, data) ==
    LET v == data[col]
    IN IF v = <<>> THEN <<>>
       ELSE IF col = "LAST POST" /\ Contains(v, s_content) /\ Contains(v, s_g)
            THEN _clean_url(v)
            ELSE v


\* one store call as the log of a write_profile call keeps it
StoreCall(name, row, col, value, reqs, raised) ==
    [call |-> name, row |-> row, col |-> col, value |-> value, reqs |-> reqs,
     raised |-> raised]

\* _update_links(2, data) on the rows, from link column k on: each cell update
\* that raises is skipped.  The result is <<rows, calls>>.
RECURSIVE _update_links(_, _, _, _, _)
_update_links(rows, log, data, fail, k) ==
    IF k > Len(LINK_COLUMNS) THEN <<rows, log>>
    ELSE LET col == LINK_COLUMNS[k]
             v == LinkValue(col, data)
             raised == (fail = <<"update", col>>)
             c == COLUMN_TO_INDEX(col)
         IN IF v = <<>> THEN _update_links(rows, log, data, fail, k + 1)
            ELSE _update_links(
                     IF raised THEN rows ELSE update_cell(rows, 2, c, v),
                     Append(log, StoreCall("update", 2, c, v, <<>>, raised)),
                     data, fail, k + 1)

\* write_profile, lines 961-1001 and 1013: what the call computes before it
\* touches the store
Prepare(profile) ==
    LET nickname == Nickname(profile)
        key == Lower(nickname)
        data == Normalize(profile, tags_mapping, now)
        row_values == RowValues(data)
        found == key \in DOMAIN existing
        before == IF found THEN Before(existing[key]) ELSE [c \in COLUMNS |-> <<>>]
    IN [profile |-> profile, nickname |-> nickname, key |-> key, data |-> data,
        row_values |-> row_values, found |-> found, before |-> before,
        changed |-> IF found THEN Changed(before, row_values) ELSE <<>>,
        old_row |-> IF found THEN OldRow(existing[key]) ELSE 0]

\* the store calls that the call prepared as p makes, each of which can raise
StoreCalls(p) ==
    IF p.nickname = <<>> THEN {}
    ELSE {<<"insert_row">>}
         \cup {<<"update", LINK_COLUMNS[k]>> :
                   k \in {j \in 1..Len(LINK_COLUMNS) : LinkValue(LINK_COLUMNS[j], p.data) # <<>>}}
         \cup (IF p.changed # <<>> THEN {<<"batch_update">>} ELSE {})
         \cup (IF p.found THEN {<<"delete_rows">>} ELSE {})

\* the statuses with which write_profile returns after an upsert
Completed == {"new", "updated", "unchanged"}

\* two records with the same field values, the capture timestamp apart
SameRecord(p, q) == \A c \in COLUMNS \ {"DATETIME SCRAP"} : p[c] = q[c]

\* The result of the call: the state it leaves and what it returns.  A status
\* of "raised" stands for an exception that leaves write_profile.  The record
\* op keeps what the call was given, read and returned; again says that the
\* call before it, in the same run, completed an upsert of the same record.
Outcome(rows, ns, index, status, changed, log, p) ==
    [ws |-> rows, notes |-> ns, existing |-> index, calls |-> log,
     op |-> [profile |-> p.profile, key |-> p.key, found |-> p.found,
             before |-> p.before, row_values |-> p.row_values, old_row |-> p.old_row,
             status |-> status, changed_fields |-> changed,
             again |-> op.status \in Completed /\ SameRecord(op.profile, p.profile)]]

\* write_profile, lines 1003-1029, with the store call named by fail raising
\* (<<>> for none)
Perform(p, fail) ==
    LET entry == [row |-> 2, data |-> p.row_values]
        insert == StoreCall("insert_row", 2, 0, p.row_values, <<>>, fail = <<"insert_row">>)
        inserted == _update_links(insert_row(ws, p.row_values, 2), <<insert>>, p.data, fail, 1)
        ns1 == insert_row(notes, NoNotes, 2)
        reqs == NoteRequests(2, p.changed, p.before, p.row_values)
        annotate == StoreCall("batch_update", 0, 0, <<>>, reqs, fail = <<"batch_update">>)
        log2 == IF p.changed # <<>> THEN Append(inserted[2], annotate) ELSE inserted[2]
        ns2 == IF p.changed # <<>> THEN ApplyNotes(ns1, reqs) ELSE ns1
        delete == StoreCall("delete_rows", p.old_row, 0, <<>>, <<>>, fail = <<"delete_rows">>)
    IN IF p.nickname = <<>>
       THEN Outcome(ws, notes, existing, "error", <<>>, <<>>, [p EXCEPT !.row_values = <<>>])
       ELSE IF fail = <<"insert_row">>
       THEN Outcome(ws, notes, existing, "raised", <<>>, <<insert>>, p)
       ELSE IF p.found
       THEN IF p.changed # <<>> /\ fail = <<"batch_update">>
            THEN Outcome(inserted[1], ns1, existing, "raised", <<>>, log2, p)
            ELSE Outcome(
                     IF fail = <<"delete_rows">> THEN inserted[1]
                     ELSE delete_rows(inserted[1], p.old_row),
                     IF fail = <<"delete_rows">> THEN ns2 ELSE delete_rows(ns2, p.old_row),
                     [existing EXCEPT ![p.key] = entry],
                     IF p.changed # <<>> THEN "updated" ELSE "unchanged",
                     [k \in 1..Len(p.changed) |-> COLUMN_ORDER[p.changed[k]]],
                     Append(log2, delete), p)
       ELSE Outcome(inserted[1], ns1, (p.key :> entry) @@ existing, "new",
                    COLUMN_ORDER, inserted[2], p)

\* Sheets.write_profile(profile)
write_profile(profile, fail) == Perform(Prepare(profile), fail)

----------------------------------------------------------------------------
(* Sheets.__init__ at the start of a run: _format sorts ProfilesData by     *)
(* column 18 (DATETIME SCRAP), descending, and _load_existing reads it.    *)

\* the characters of the model in the order of their code points
CODE_ORDER ==
    <<"\t", "\n", " ", "-", ".", "/">> \o DIGITS \o <<":">> \o UPPERCASE
        \o <<"[", "]", "_">> \o LOWERCASE

CodePoint(c) == CHOOSE i \in 1..Len(CODE_ORDER) : CODE_ORDER[i] = c

\* a < b as text
RECURSIVE TextLess(_, _)
TextLess(a, b) ==
    IF b = <<>> THEN FALSE
    ELSE IF a = <<>> THEN TRUE
    ELSE IF Head(a) = Head(b) THEN TextLess(Tail(a), Tail(b))
    ELSE CodePoint(Head(a)) < CodePoint(Head(b))

\* whether row a stays above row b in a descending sort by column 18: empty
\* cells go last, equal cells keep their order
StaysAbove(a, b) ==
    LET x == a.data[NCOLS]
        y == b.data[NCOLS]
    IN IF y = <<>> THEN TRUE
       ELSE IF x = <<>> THEN FALSE
       ELSE ~TextLess(x, y)

RECURSIVE InsertSorted(_, _)
InsertSorted(sorted, r) ==
    IF sorted = <<>> THEN <<r>>
    ELSE IF StaysAbove(sorted[Len(sorted)], r) THEN Append(sorted, r)
    ELSE Append(InsertSorted(SubSeq(sorted, 1, Len(sorted) - 1), r), sorted[Len(sorted)])

\* Worksheet.sort((18, "des")) of rows that carry their notes along
RECURSIVE SortDescending(_)
SortDescending(rs) ==
    IF rs = <<>> THEN <<>>
    ELSE InsertSorted(SortDescending(SubSeq(rs, 1, Len(rs) - 1)), rs[Len(rs)])

----------------------------------------------------------------------------
(* The records offered to write_profile and the sheets a run starts from.  *)

s_ali == <<"a","l","i">>
s_Ali_sp == <<"A","l","i"," ">>
s_sara == <<"s","a","r","a">>
s_Lahore == <<"L","a","h","o","r","e">>
s_New_City == <<"N","e","w"," "," ","C","i","t","y">>
s_NA == <<"N","/","A">>
s_NONE == <<"N","O","N","E">>
s_22 == <<"2","2">>
s_23 == <<"2","3">>
s_2019 == <<"2","0","1","9">>
s_2020 == <<"2","0","2","0">>
s_2_days_ago == <<"2"," ","d","a","y","s"," ","a","g","o">>
s_1_week_ago == <<"1"," ","w","e","e","k"," ","a","g","o">>
s_VIP == <<"V","I","P">>
s_Online == <<"O","n","l","i","n","e">>
s_post1 == <<"/","c","o","n","t","e","n","t","/","7","/","g","/">>
s_post2 == <<"/","c","o","m","m","e","n","t","s","/","t","e","x","t","/","9">>
s_img1 == <<"/","a","v","a","t","a","r","/","a",".","j","p","g">>
s_users == <<"/","u","s","e","r","s","/">>

\* the dictionary scrape_profile starts from (lines 1074-1093)
Scraped(nick) ==
    [c \in COLUMNS |->
        IF c = "NICK NAME" THEN nick
        ELSE IF c = "PROFILE LINK" THEN s_users \o nick
        ELSE IF c = "SOURCE" THEN s_Online
        ELSE <<>>]

P_ali ==
    [Scraped(s_ali) EXCEPT !["CITY"] = s_Lahore, !["AGE"] = s_22, !["IMAGE"] = s_img1,
                           !["LAST POST"] = s_post1, !["LAST POST TIME"] = s_2_days_ago,
                           !["JOINED"] = s_2019]
P_ali_age == [P_ali EXCEPT !["AGE"] = s_23]
P_ali_volatile ==
    [P_ali EXCEPT !["LAST POST"] = s_post2, !["LAST POST TIME"] = s_1_week_ago,
                  !["JOINED"] = s_2020]
P_Ali_na == [Scraped(s_Ali_sp) EXCEPT !["CITY"] = s_NA, !["AGE"] = s_22]
P_ali_NONE == [Scraped(s_ali) EXCEPT !["CITY"] = s_NONE, !["AGE"] = s_22]
P_sara == [Scraped(s_sara) EXCEPT !["CITY"] = s_New_City]
P_blank == Scraped(<<" ">>)
P_empty == Scraped(<<>>)

Profiles ==
    {P_ali, P_ali_age, P_ali_volatile, P_Ali_na, P_ali_NONE, P_sara, P_blank, P_empty}

TagMappings == {NoEntries, (s_ali :> s_VIP)}

\* the row that a write_profile call with no failing store call leaves at row 2
WrittenRow(profile, today) ==
    LET data == Normalize(profile, NoEntries, today)
    IN _update_links(<<RowValues(data)>>, <<>>, data, <<>>, 1)[1][1]

\* sheets written by earlier runs: at most one row for a key
InitialSheets ==
    { <<>>,
      <<WrittenRow(P_ali, 9)>>,
      <<WrittenRow(P_sara, 9), WrittenRow(P_Ali_na, 8)>> }

NoCall ==
    [profile |-> P_empty, key |-> <<>>, found |-> FALSE,
     before |-> [c \in COLUMNS |-> <<>>], row_values |-> <<>>, old_row |-> 0,
     status |-> "none", changed_fields |-> <<>>, again |-> FALSE]


----------------------------------------------------------------------------
(* The NickList and Dashboard sheets of class Sheets.                      *)

\* r[i] if len(r) > i - 1 else ''
Cell(r, i) == IF i <= Len(r) THEN r[i] ELSE <<>>

\* times_val of _load_nick_list: int(s), or 0 when int raises
TimesVal(s) ==
    LET digits == IF s # <<>> /\ Head(s) \in {"-", "+"} THEN Tail(s) ELSE s
    IN IF digits = <<>> \/ \E i \in 1..Len(digits) : ~IsDigit(digits[i]) THEN 0
       ELSE IF Head(s) = "-" THEN 0 - StrToNat(digits)
       ELSE StrToNat(digits)

\* _load_nick_list, lines 754-780, of the rows below the header: a later row
\* of a key replaces an earlier one
_load_nick_list(rows) ==
    LET named == {i \in 1..Len(rows) : Strip(Cell(rows[i], 1)) # <<>>}
        key(i) == Lower(Strip(Cell(rows[i], 1)))
    IN [k \in {key(i) : i \in named} |->
          LET i == CHOOSE j \in named : key(j) = k /\ \A m \in named : key(m) = k => m <= j
          IN [row |-> i + 1,
              times |-> TimesVal(Strip(Cell(rows[i], 2))),
              first |-> Strip(Cell(rows[i], 3)),
              last |-> Strip(Cell(rows[i], 4))]]

\* Worksheet.update of the range A{row}:D{row}
UpdateRow(rows, row, values) ==
    [j \in 1..Max(Len(rows), row - 1) |->
        IF j = row - 1 THEN values ELSE IF j <= Len(rows) THEN rows[j] ELSE <<>>]

FirstSeen_Now(entry, ts) == ts

\* entry['first'] or ts
FirstSeen(entry, ts) == IF entry.first # <<>> THEN entry.first ELSE ts

\* record_nick_seen(nickname), lines 782-823, at the time ts, its store call
\* raising when ok is false: what it leaves of the sheet and of the index,
\* and the store call it made
RecordNickSeen(nickname, ts, ok) ==
    LET key == Lower(Strip(nickname))
        idle == [nick_list_ws |-> nick_list_ws, nick_list_existing |-> nick_list_existing,
                 nick_list_next_row |-> nick_list_next_row, calls |-> <<>>]
    IN IF nickname = <<>> \/ key = <<>> THEN idle
       ELSE IF key \in DOMAIN nick_list_existing
       THEN LET entry == nick_list_existing[key]
                times == entry.times + 1
                values == <<nickname, IntToStr(times), FirstSeen(entry, ts), ts>>
                call == StoreCall("nick_list_ws.update", entry.row, 0, values, <<>>, ~ok)
            IN IF ~ok THEN [idle EXCEPT !.calls = <<call>>]
               ELSE [nick_list_ws |-> UpdateRow(nick_list_ws, entry.row, values),
                     nick_list_existing |->
                         [nick_list_existing EXCEPT ![key].times = times, ![key].last = ts],
                     nick_list_next_row |-> nick_list_next_row,
                     calls |-> <<call>>]
       ELSE LET values == <<nickname, <<"1">>, ts, ts>>
                call == StoreCall("nick_list_ws.append_row", nick_list_next_row, 0, values,
                                  <<>>, ~ok)
            IN IF ~ok THEN [idle EXCEPT !.calls = <<call>>]
               ELSE [nick_list_ws |-> Append(nick_list_ws, values),
                     nick_list_existing |->
                         [k \in DOMAIN nick_list_existing \cup {key} |->
                             IF k = key
                             THEN [row |-> nick_list_next_row, times |-> 1,
                                   first |-> ts, last |-> ts]
                             ELSE nick_list_existing[k]],
                     nick_list_next_row |-> nick_list_next_row + 1,
                     calls |-> <<call>>]

\* the columns of Dashboard, in the order of the row of update_dashboard
METRIC_ORDER ==
    <<"Run Number", "Last Run", "Profiles Processed", "Success", "Failed",
      "New Profiles", "Updated Profiles", "Unchanged Profiles", "Trigger", "Start", "End">>

\* the metrics with which main starts its loop on the given day (lines 1264-1275)
NewMetrics(day) ==
    [k \in {METRIC_ORDER[i] : i \in 1..10} |->
        IF k = "Run Number" THEN 1
        ELSE IF k \in {"Last Run", "Start"} THEN Stamp(day)
        ELSE IF k = "Trigger" THEN "manual"
        ELSE 0]

\* metrics["End"] = ... (line 1332)
Ended(m, day) == [k \in DOMAIN m \cup {"End"} |-> IF k = "End" THEN Stamp(day) ELSE m[k]]

\* the row of update_dashboard, lines 885-897: metrics.get(name, default)
DashboardRow(m, day) ==
    [i \in 1..Len(METRIC_ORDER) |->
        LET k == METRIC_ORDER[i]
        IN IF k \in DOMAIN m THEN m[k]
           ELSE IF k = "Run Number" THEN 1
           ELSE IF k \in {"Last Run", "Start", "End"} THEN Stamp(day)
           ELSE IF k = "Trigger" THEN "manual"
           ELSE 0]

\* Worksheet.sort((2, "des")) of Dashboard: by Last Run, descending, rows of
\* equal value in their order
RECURSIVE SortDashboard(_)
SortDashboard(rows) ==
    IF rows = <<>> THEN <<>>
    ELSE LET sorted == SortDashboard(SubSeq(rows, 1, Len(rows) - 1))
             r == rows[Len(rows)]
             before == {i \in 1..Len(sorted) : ~TextLess(sorted[i][2], r[2])}
         IN [i \in 1..Len(rows) |->
               IF i <= Cardinality(before) THEN sorted[i]
               ELSE IF i = Cardinality(before) + 1 THEN r
               ELSE sorted[i - 1]]

----------------------------------------------------------------------------

(* class AdaptiveDelay.  A delay of d seconds is the integer d * 10^6.     *)

\* MIN_DELAY and MAX_DELAY are read from the environment: the default range of
\* 0.5 to 0.7 seconds, and a range of 4 to 7 seconds set by the operator
DelayRanges == { <<500000, 700000>>, <<4000000, 7000000>> }

BATCH_SIZE == 10
OPTIMIZATION_SAMPLE_SIZE == 10
SHEET_WRITE_DELAY == 1000000

\* d * (num / den) of a float product
Times(d, num, den) == (d * num) \div den

\* on_rate_limit, line 322: factor = 1 + min(0.2 * hits, 1.0), in tenths
Factor_Flat(h) == 12

Factor(h) == 10 + Min(2 * h, 10)

\* on_success, lines 315-316
Shrunk(d, base) == Max(base, Times(d, 95, 100))

\* on_rate_limit, lines 323-324
Penalized(d, h, ceiling) == Min(ceiling, Times(d, Factor(h), 10))

\* on_rate_limit, line 324
PenalizedMax_Forgotten(d, h) == d

PenalizedMax(d, h) == Penalized(d, h, 6000000)

\* on_batch, lines 329-330
Widened(d, base, ceiling) == Min(ceiling, Max(base, Times(d, 11, 10)))

\* optimize_batch_size, lines 336-337: DELAY_REDUCTION_FACTOR = 0.9
Relaxed(d, base) == Max(base, Times(d, 9, 10))

\* optimize_batch_size, line 335: int(batch_size * BATCH_SIZE_FACTOR), factor 1.2
Grown(b) == (b * 12) \div 10

on_success ==
    /\ nSteps < MaxSteps
    /\ nSteps' = nSteps + 1
    /\ hits' = IF hits # 0 THEN hits - 1 ELSE hits
    /\ IF clock - last > 10
       THEN /\ min_delay' = Shrunk(min_delay, base_min)
            /\ max_delay' = Shrunk(max_delay, base_max)
            /\ last' = clock
            /\ adjusted' = clock
       ELSE UNCHANGED <<min_delay, max_delay, last, adjusted>>
    /\ UNCHANGED <<batch_size, clock, slept>>
    /\ UNCHANGED <<base_min, base_max>>
    /\ UNCHANGED sheetVars
    /\ UNCHANGED runVars

on_rate_limit ==
    /\ nSteps < MaxSteps
    /\ nSteps' = nSteps + 1
    /\ hits' = hits + 1
    /\ min_delay' = Penalized(min_delay, hits', 3000000)
    /\ max_delay' = PenalizedMax(max_delay, hits')
    /\ adjusted' = clock
    /\ UNCHANGED <<last, batch_size, clock, slept>>
    /\ UNCHANGED <<base_min, base_max>>
    /\ UNCHANGED sheetVars
    /\ UNCHANGED runVars

on_batch ==
    /\ nSteps < MaxSteps
    /\ nSteps' = nSteps + 1
    /\ min_delay' = Widened(min_delay, base_min, 3000000)
    /\ max_delay' = Widened(max_delay, base_max, 6000000)
    /\ adjusted' = clock
    /\ UNCHANGED <<hits, last, batch_size, clock, slept>>
    /\ UNCHANGED <<base_min, base_max>>
    /\ UNCHANGED sheetVars
    /\ UNCHANGED runVars

optimize_batch_size(count) ==
    /\ nSteps < MaxSteps
    /\ nSteps' = nSteps + 1
    /\ IF count >= OPTIMIZATION_SAMPLE_SIZE
       THEN /\ batch_size' = Grown(batch_size)
            /\ min_delay' = Relaxed(min_delay, base_min)
            /\ max_delay' = Relaxed(max_delay, base_max)
            /\ adjusted' = clock
       ELSE UNCHANGED <<batch_size, min_delay, max_delay, adjusted>>
    /\ UNCHANGED <<hits, last, clock, slept>>
    /\ UNCHANGED <<base_min, base_max>>
    /\ UNCHANGED sheetVars
    /\ UNCHANGED runVars

\* sleep, line 342: random.uniform(min_delay, max_delay) draws d, one of the ends
\* of the interval in the model; the clock counts whole seconds
sleep(d) ==
    /\ nSteps < MaxSteps
    /\ nSteps' = nSteps + 1
    /\ Min(min_delay, max_delay) <= d /\ d <= Max(min_delay, max_delay)
    /\ clock + d \div 1000000 <= MaxClock
    /\ clock' = clock + d \div 1000000
    /\ slept' = d
    /\ UNCHANGED <<min_delay, max_delay, hits, last, adjusted, batch_size>>
    /\ UNCHANGED <<base_min, base_max>>
    /\ UNCHANGED sheetVars
    /\ UNCHANGED runVars

\* time passes between two calls while a profile is scraped: 10 or 11 seconds
Elapse(seconds) ==
    /\ clock + seconds <= MaxClock
    /\ clock' = clock + seconds
    /\ UNCHANGED <<min_delay, max_delay, hits, last, adjusted, batch_size, nSteps, slept>>
    /\ UNCHANGED <<base_min, base_max>>
    /\ UNCHANGED sheetVars
    /\ UNCHANGED runVars

----------------------------------------------------------------------------
(* The operations on the sheet.                                            *)

\* one write_profile call, in which at most one store call raises; the clock
\* moves on by a day with every call
WriteProfile(profile) ==
    /\ nOps < MaxOps
    /\ \E p \in {Prepare(profile)} :
       \E fail \in {<<>>} \cup (IF nFailures < MaxFailures THEN StoreCalls(p) ELSE {}) :
       \E r \in {Perform(p, fail)} :
          /\ ws' = r.ws
          /\ notes' = r.notes
          /\ existing' = r.existing
          /\ op' = r.op
          /\ calls' = r.calls
          /\ nFailures' = IF fail # <<>> THEN nFailures + 1 ELSE nFailures
    /\ nOps' = nOps + 1
    /\ now' = now + 1
    /\ UNCHANGED <<tags_mapping, logged>>
    /\ UNCHANGED delayVars
    /\ UNCHANGED runVars

\* a new run: Sheets.__init__ sorts the sheet (a failure of the sort is
\* swallowed and leaves the order) and builds the index from it; it sorts
\* Dashboard likewise and reads NickList
NewRun(sortOk) ==
    /\ nOps < MaxOps
    /\ nOps' = nOps + 1
    /\ LET rs == [i \in 1..Len(ws) |-> [data |-> ws[i], notes |-> notes[i]]]
           sorted == IF sortOk THEN SortDescending(rs) ELSE rs
       IN /\ ws' = [i \in 1..Len(ws) |-> sorted[i].data]
          /\ notes' = [i \in 1..Len(ws) |-> sorted[i].notes]
    /\ existing' = _load_existing(ws')
    /\ logged' = _load_existing_log(ws')
    /\ op' = NoCall
    /\ calls' = <<>>
    /\ \E dashOk \in BOOLEAN :
          dashboard' = IF dashOk THEN SortDashboard(dashboard) ELSE dashboard
    /\ nick_list_existing' = _load_nick_list(nick_list_ws)
    /\ nick_list_next_row' = Len(nick_list_ws) + 2
    /\ UNCHANGED <<tags_mapping, now, nFailures>>
    /\ UNCHANGED <<nick_list_ws, runlist>>
    /\ UNCHANGED mainVars
    /\ UNCHANGED delayVars

----------------------------------------------------------------------------
(* The calls on the NickList and Dashboard sheets.                         *)

\* one record_nick_seen call, whose store call raises when ok is false
record_nick_seen(nickname, ok) ==
    /\ nOps < MaxCalls
    /\ nOps' = nOps + 1
    /\ ok \/ nFailures < MaxFailures
    /\ \E r \in {RecordNickSeen(nickname, Stamp(now), ok)} :
          /\ nick_list_ws' = r.nick_list_ws
          /\ nick_list_existing' = r.nick_list_existing
          /\ nick_list_next_row' = r.nick_list_next_row
          /\ calls' = r.calls
          /\ nFailures' = IF r.calls # <<>> /\ ~ok THEN nFailures + 1 ELSE nFailures
    /\ now' = now + 1
    /\ UNCHANGED <<ws, notes, existing, logged, tags_mapping, op>>
    /\ UNCHANGED <<runlist, dashboard>>
    /\ UNCHANGED mainVars
    /\ UNCHANGED delayVars

\* update_dashboard(m), lines 883-901, whose append_row raises when ok is
\* false; the exception is swallowed
update_dashboard(m, ok) ==
    /\ nOps < MaxCalls
    /\ nOps' = nOps + 1
    /\ ok \/ nFailures < MaxFailures
    /\ nFailures' = IF ok THEN nFailures ELSE nFailures + 1
    /\ dashboard' = IF ok THEN Append(dashboard, DashboardRow(m, now)) ELSE dashboard
    /\ calls' = <<StoreCall("dashboard.append_row", Len(dashboard) + 2, 0,
                            DashboardRow(m, now), <<>>, ~ok)>>
    /\ now' = now + 1
    /\ UNCHANGED <<ws, notes, existing, logged, tags_mapping, op>>
    /\ UNCHANGED <<nick_list_ws, nick_list_existing, nick_list_next_row, runlist>>
    /\ UNCHANGED mainVars
    /\ UNCHANGED delayVars

----------------------------------------------------------------------------

(* main: the loop over online_nicknames.                                   *)

\* the nicknames that are online: u1, u2, ...
online_nicknames == [i \in 1..MaxRecords |-> <<"u">> \o NatToStr(i)]

\* what scrape_profile returns for a nickname when it does not return None
ScrapedProfile(nickname) == [Scraped(nickname) EXCEPT !["CITY"] = s_Lahore]

\* driver.get and the reading of the page in scrape_profile, in seconds
ScrapeSeconds == 2

\* update_runlist_status(nickname, status, remarks, source), lines 825-839,
\* its store call raising when ok is false: the rows it leaves and the call
update_runlist_status(nickname, status, remarks, source, ok) ==
    LET at == {i \in 1..Len(runlist) :
                  Len(runlist[i]) > 0 /\ Lower(runlist[i][1]) = Lower(nickname)}
        values == <<nickname, status, remarks, source>>
    IN IF at # {}
       THEN LET i == CHOOSE j \in at : \A k \in at : j <= k
            IN [runlist |-> IF ok THEN [runlist EXCEPT ![i] = values] ELSE runlist,
                calls |-> <<StoreCall("runlist.update", i + 1, 0, values, <<>>, ~ok)>>]
       ELSE [runlist |-> IF ok THEN Append(runlist, values) ELSE runlist,
             calls |-> <<StoreCall("runlist.append_row", Len(runlist) + 2, 0, values,
                                   <<>>, ~ok)>>]

\* the store calls of a log as events, each call that is followed by
\* time.sleep(SHEET_WRITE_DELAY) with that wait: the cell updates of
\* _update_links (line 931) and the calls on NickList and RunList (lines 801,
\* 813, 833, 837), when they do not raise
RECURSIVE StoreEvents(_)
StoreEvents(log) ==
    IF log = <<>> THEN <<>>
    ELSE LET c == Head(log)
         IN <<c.call>>
            \o (IF ~c.raised /\ c.call \notin {"insert_row", "batch_update", "delete_rows"}
                THEN <<"time.sleep">> ELSE <<>>)
            \o StoreEvents(Tail(log))

\* the events of write_profile: its store calls, and the wait of line 1028
\* before it returns a result
WriteEvents(log, status) ==
    StoreEvents(log) \o (IF status \in Completed THEN <<"time.sleep">> ELSE <<>>)

\* the seconds spent in the time.sleep(SHEET_WRITE_DELAY) calls of the events
Waited(evs) ==
    (Cardinality({i \in 1..Len(evs) : evs[i] = "time.sleep"}) * SHEET_WRITE_DELAY) \div 1000000

\* result['status'].upper()
StatusUpper(status) ==
    CASE status = "new" -> "NEW"
      [] status = "updated" -> "UPDATED"
      [] status = "unchanged" -> "UNCHANGED"
      [] OTHER -> "ERROR"

Counted_Nothing(m, names) == m

\* metrics[name] += 1 for the names given
Counted(m, names) == [k \in DOMAIN m |-> IF k \in names THEN m[k] + 1 ELSE m[k]]

OutcomeCounter_Updated(status) == "Updated Profiles"

\* main, lines 1304-1312: the counter that the status of a result raises
OutcomeCounter(status) ==
    IF status = "new" THEN "New Profiles"
    ELSE IF status = "updated" THEN "Updated Profiles"
    ELSE "Unchanged Profiles"

\* AdaptiveDelay as a value: the fields that its methods assign
Adaptive ==
    [min_delay |-> min_delay, max_delay |-> max_delay, hits |-> hits, last |-> last,
     adjusted |-> adjusted, batch_size |-> batch_size]

\* adaptive.on_success() at the time t
adaptive_on_success(a, t) ==
    LET shrink == t - a.last > 10
    IN [a EXCEPT !.hits = IF @ # 0 THEN @ - 1 ELSE @,
                 !.min_delay = IF shrink THEN Shrunk(@, base_min) ELSE @,
                 !.max_delay = IF shrink THEN Shrunk(@, base_max) ELSE @,
                 !.last = IF shrink THEN t ELSE @,
                 !.adjusted = IF shrink THEN t ELSE @]

\* adaptive.on_rate_limit() at the time t
adaptive_on_rate_limit(a, t) ==
    [a EXCEPT !.hits = @ + 1,
              !.min_delay = Penalized(@, a.hits + 1, 3000000),
              !.max_delay = PenalizedMax(@, a.hits + 1),
              !.adjusted = t]

\* adaptive.optimize_batch_size(count) at the time t
adaptive_optimize_batch_size(a, t, count) ==
    IF count >= OPTIMIZATION_SAMPLE_SIZE
    THEN [a EXCEPT !.batch_size = Grown(@),
                   !.min_delay = Relaxed(@, base_min),
                   !.max_delay = Relaxed(@, base_max),
                   !.adjusted = t]
    ELSE a

SampleReached_AtLeast(count) == count >= OPTIMIZATION_SAMPLE_SIZE

\* if success_count == OPTIMIZATION_SAMPLE_SIZE (line 1319)
SampleReached(count) == count = OPTIMIZATION_SAMPLE_SIZE

\* MAX_PROFILES_PER_RUN as the environment sets it: no limit, or three
ProfileLimits == {0, 3}

CutOff_After(limit, done) == limit > 0 /\ done > limit

\* if MAX_PROFILES_PER_RUN > 0 and processed >= MAX_PROFILES_PER_RUN: break
CutOff(limit, done) == limit > 0 /\ done >= limit

\* what goes wrong in one pass through the loop, at most one thing: nothing,
\* the store call of record_nick_seen, scrape_profile (it returns None), the
\* store call of update_runlist_status, or one store call of write_profile
Faults(p) ==
    {<<>>, <<"record_nick_seen">>, <<"scrape_profile">>, <<"update_runlist_status">>}
        \cup StoreCalls(p)

\* the exceptions of a store call: gspread's APIError for an exhausted quota
\* (429) and for a refused or unknown spreadsheet (401, 403, 404)
StoreErrors == {"QuotaExceeded", "Unauthorized"}

\* the controller after the pass, the AdaptiveDelay calls made, and the time
\* of the calls
Paced(a, t, evs) == [adaptive |-> a, t |-> t, events |-> evs]

\* One pass through the loop of main, lines 1280-1329, for the next nickname:
\* fault says what goes wrong, kind is the exception when it is a store call
\* that raises, and the final adaptive.sleep() draws one of the ends of the
\* interval.
main_loop(fault, kind, longSleep) ==
    /\ idx < Len(online_nicknames)
    /\ ~CutOff(MAX_PROFILES_PER_RUN, processed)
    /\ fault # <<>> => nFailures < MaxFailures
    /\ IF fault \in {<<>>, <<"scrape_profile">>} THEN kind = "none" ELSE kind \in StoreErrors
    /\ error' = kind
    /\ idx' = idx + 1
    /\ nFailures' = IF fault # <<>> THEN nFailures + 1 ELSE nFailures
    /\ \E nickname \in {online_nicknames[idx + 1]} :
       \E seen \in {RecordNickSeen(nickname, Stamp(now), fault # <<"record_nick_seen">>)} :
       \E p \in {Prepare(ScrapedProfile(nickname))} :
          /\ fault \in Faults(p)
          /\ nick_list_ws' = seen.nick_list_ws
          /\ nick_list_existing' = seen.nick_list_existing
          /\ nick_list_next_row' = seen.nick_list_next_row
          /\ IF fault = <<"scrape_profile">>
             THEN \E rl \in {update_runlist_status(nickname, "Failed", "Scraping error",
                                                   "Online", TRUE)} :
                  \E evs \in {StoreEvents(seen.calls) \o StoreEvents(rl.calls)} :
                  \E t \in {clock + ScrapeSeconds + Waited(evs)} :
                  \E d \in {IF longSleep THEN max_delay ELSE min_delay} :
                     /\ metrics' = Counted(metrics, {"Failed"})
                     /\ runlist' = rl.runlist
                     /\ events' = evs \o <<"adaptive.sleep">>
                     /\ clock' = t + d \div 1000000
                     /\ slept' = d
                     /\ nSteps' = nSteps + 1
                     /\ UNCHANGED <<ws, notes, existing, op, calls>>
                     /\ UNCHANGED <<processed, success_count>>
                     /\ UNCHANGED <<min_delay, max_delay, hits, last, adjusted, batch_size>>
             ELSE \E r \in {Perform(p, IF fault \in StoreCalls(p) THEN fault ELSE <<>>)} :
                  \E written \in {r.op.status # "raised"} :
                  \E rl \in {IF written
                             THEN update_runlist_status(nickname, "Complete",
                                      StatusUpper(r.op.status), "Online",
                                      fault # <<"update_runlist_status">>)
                             ELSE update_runlist_status(nickname, "Failed", "Sheet error",
                                      "Online", fault # <<"update_runlist_status">>)} :
                  \E evs \in {StoreEvents(seen.calls) \o WriteEvents(r.calls, r.op.status)
                                  \o StoreEvents(rl.calls)} :
                  \E t \in {clock + ScrapeSeconds + Waited(evs)} :
                  \E count \in {IF written THEN success_count + 1 ELSE success_count} :
                  \E paced \in {IF ~written
                                THEN Paced(adaptive_on_rate_limit(Adaptive, t), t,
                                           <<"adaptive.on_rate_limit">>)
                                ELSE IF SampleReached(count)
                                THEN Paced(adaptive_on_success(
                                               adaptive_optimize_batch_size(Adaptive, t, count),
                                               t),
                                           t, <<"adaptive.optimize_batch_size",
                                                "adaptive.on_success">>)
                                ELSE Paced(adaptive_on_success(Adaptive, t), t,
                                           <<"adaptive.on_success">>)} :
                  \E d \in {IF longSleep THEN paced.adaptive.max_delay
                            ELSE paced.adaptive.min_delay} :
                     /\ ws' = r.ws
                     /\ notes' = r.notes
                     /\ existing' = r.existing
                     /\ op' = r.op
                     /\ calls' = r.calls
                     /\ processed' = IF written THEN processed + 1 ELSE processed
                     /\ success_count' = count
                     /\ metrics' =
                           IF ~written THEN Counted(metrics, {"Failed"})
                           ELSE Counted(metrics,
                                    {"Profiles Processed", "Success",
                                     OutcomeCounter(r.op.status)})
                     /\ runlist' = rl.runlist
                     /\ events' = evs \o paced.events \o <<"adaptive.sleep">>
                     /\ min_delay' = paced.adaptive.min_delay
                     /\ max_delay' = paced.adaptive.max_delay
                     /\ hits' = paced.adaptive.hits
                     /\ last' = paced.adaptive.last
                     /\ adjusted' = paced.adaptive.adjusted
                     /\ batch_size' = paced.adaptive.batch_size
                     /\ clock' = t + d \div 1000000
                     /\ slept' = d
                     /\ nSteps' = nSteps + Len(paced.events) + 1
    /\ UNCHANGED <<tags_mapping, logged, now, nOps, dashboard>>
    /\ UNCHANGED <<base_min, base_max, MAX_PROFILES_PER_RUN>>

\* main after the loop, which the last nickname or the limit ends, lines
\* 1331-1333: the metrics get their End and are
\* handed to update_dashboard, whose append_row raises when ok is false
main_end(ok) ==
    /\ idx = Len(online_nicknames) \/ CutOff(MAX_PROFILES_PER_RUN, processed)
    /\ "End" \notin DOMAIN metrics
    /\ ok \/ nFailures < MaxFailures
    /\ nFailures' = IF ok THEN nFailures ELSE nFailures + 1
    /\ metrics' = Ended(metrics, now)
    /\ dashboard' = IF ok THEN Append(dashboard, DashboardRow(metrics', now)) ELSE dashboard
    /\ events' = <<"dashboard.append_row">>
    /\ UNCHANGED <<ws, notes, existing, logged, tags_mapping, now, op, calls, nOps>>
    /\ UNCHANGED <<nick_list_ws, nick_list_existing, nick_list_next_row, runlist>>
    /\ UNCHANGED <<processed, success_count, idx, error, MAX_PROFILES_PER_RUN>>
    /\ UNCHANGED delayVars

----------------------------------------------------------------------------

(* Specifications.                                                         *)

InitSheets ==
    /\ ws \in InitialSheets
    /\ notes = [i \in 1..Len(ws) |-> NoNotes]
    /\ existing = _load_existing(ws)
    /\ logged = _load_existing_log(ws)
    /\ tags_mapping \in TagMappings
    /\ now = 10
    /\ op = NoCall
    /\ calls = <<>>
    /\ nOps = 0
    /\ nFailures = 0

\* AdaptiveDelay.__init__(mn, mx)
AdaptiveDelay(mn, mx) ==
    /\ base_min = mn
    /\ base_max = mx
    /\ min_delay = mn
    /\ max_delay = mx
    /\ hits = 0
    /\ last = 0
    /\ adjusted = 0
    /\ batch_size = BATCH_SIZE
    /\ clock = 0
    /\ slept = 0
    /\ nSteps = 0

\* an empty sheet on which nothing is done
IdleSheets ==
    /\ ws = <<>>
    /\ notes = <<>>
    /\ existing = NoEntries
    /\ logged = _load_existing_log(ws)
    /\ tags_mapping = NoEntries
    /\ now = 10
    /\ op = NoCall
    /\ calls = <<>>
    /\ nOps = 0
    /\ nFailures = 0

\* the NickList, RunList and Dashboard sheets without rows
IdleTrackers ==
    /\ nick_list_ws = <<>>
    /\ nick_list_existing = NoEntries
    /\ nick_list_next_row = 2
    /\ runlist = <<>>
    /\ dashboard = <<>>

\* before main's loop
IdleMain ==
    /\ metrics = NoEntries
    /\ processed = 0
    /\ success_count = 0
    /\ idx = 0
    /\ events = <<>>
    /\ error = "none"
    /\ MAX_PROFILES_PER_RUN = 0

IdleRun == IdleTrackers /\ IdleMain

\* adaptive = AdaptiveDelay(MIN_DELAY, MAX_DELAY)
InitDelay == \E range \in DelayRanges : AdaptiveDelay(range[1], range[2])

\* the controller alone, beside a sheet on which nothing is done
InitController == IdleSheets /\ InitDelay /\ IdleRun

\* a run with the default range of delays
Init == InitSheets /\ AdaptiveDelay(500000, 700000) /\ IdleRun

NextSheets ==
    \/ \E profile \in Profiles : WriteProfile(profile)
    \/ \E sortOk \in BOOLEAN : NewRun(sortOk)

NextDelay ==
    \/ on_success
    \/ on_rate_limit
    \/ on_batch
    \/ \E count \in {9, 10, 11} : optimize_batch_size(count)
    \/ \E d \in {min_delay, max_delay} : sleep(d)
    \/ \E seconds \in {10, 11} : Elapse(seconds)

\* The sheet that a failed upsert leaves: from the one row of P_ali, written on
\* day 9, write_profile(P_ali_age) on day 10 inserts its row and delete_rows
\* raises.  A later run starts on it: the sort succeeds or fails, and
\* _load_existing reads what is there.
LeftByFailedUpsert == <<WrittenRow(P_ali_age, 10), WrittenRow(P_ali, 9)>>

\* the rows as Worksheet.sort((18, "des")) leaves them
SortedRows(rows) ==
    LET rs == [i \in 1..Len(rows) |-> [data |-> rows[i], notes |-> NoNotes]]
        sorted == SortDescending(rs)
    IN [i \in 1..Len(rows) |-> sorted[i].data]

RerunSheets == {LeftByFailedUpsert, SortedRows(LeftByFailedUpsert)}

InitRerun ==
    /\ ws \in RerunSheets
    /\ notes = [i \in 1..Len(ws) |-> NoNotes]
    /\ existing = _load_existing(ws)
    /\ logged = _load_existing_log(ws)
    /\ tags_mapping \in TagMappings
    /\ now = 11
    /\ op = NoCall
    /\ calls = <<>>
    /\ nOps = 0
    /\ nFailures = 0
    /\ AdaptiveDelay(500000, 700000)
    /\ IdleRun

\* the nicknames offered to record_nick_seen
SeenNicknames == {s_ali, s_Ali_sp, s_sara, <<" ">>, <<>>}

\* NickList at the start of a run: without rows, or with the row of a
\* nickname seen on days 8 and 9
SeenSheets == {<<>>, << <<s_Ali_sp, <<"2">>, Stamp(8), Stamp(9)>> >>}

\* the metrics of a finished run of the given day in which n profiles were new
PublishedMetrics(day) ==
    {Ended([NewMetrics(day) EXCEPT !["Profiles Processed"] = n, !["Success"] = n,
                                  !["New Profiles"] = n], day) : n \in 0..1}

InitTrackers ==
    /\ IdleSheets
    /\ AdaptiveDelay(500000, 700000)
    /\ IdleMain
    /\ nick_list_ws \in SeenSheets
    /\ nick_list_existing = _load_nick_list(nick_list_ws)
    /\ nick_list_next_row = Len(nick_list_ws) + 2
    /\ runlist = <<>>
    /\ dashboard = <<>>

NextTrackers ==
    \/ \E nickname \in SeenNicknames, ok \in BOOLEAN : record_nick_seen(nickname, ok)
    \/ \E m \in PublishedMetrics(now), ok \in BOOLEAN : update_dashboard(m, ok)
    \/ \E sortOk \in BOOLEAN : NewRun(sortOk)

\* calls on NickList and Dashboard over several runs
SpecTrackers == InitTrackers /\ [][NextTrackers]_vars

\* ProfilesData at the start of the run: without rows, or with the rows of
\* u1, as it is scraped now, and of u2, who lived elsewhere, written the day before
RunSheets ==
    {<<>>,
     <<WrittenRow([ScrapedProfile(online_nicknames[2]) EXCEPT !["CITY"] = s_New_City], 9),
       WrittenRow(ScrapedProfile(online_nicknames[1]), 9)>>}

\* main before its loop: the sheets are read, the controller is built and
\* the metrics are set up
InitRun ==
    /\ ws \in RunSheets
    /\ notes = [i \in 1..Len(ws) |-> NoNotes]
    /\ existing = _load_existing(ws)
    /\ logged = _load_existing_log(ws)
    /\ tags_mapping = NoEntries
    /\ now = 10
    /\ op = NoCall
    /\ calls = <<>>
    /\ nOps = 0
    /\ nFailures = 0
    /\ AdaptiveDelay(500000, 700000)
    /\ IdleTrackers
    /\ metrics = NewMetrics(now)
    /\ processed = 0
    /\ success_count = 0
    /\ idx = 0
    /\ events = <<>>
    /\ error = "none"
    /\ MAX_PROFILES_PER_RUN \in ProfileLimits

NextRun ==
    \/ \E p \in {Prepare(ScrapedProfile(online_nicknames[Min(idx + 1, MaxRecords)]))} :
       \E fault \in Faults(p), kind \in StoreErrors \cup {"none"}, longSleep \in BOOLEAN :
          main_loop(fault, kind, longSleep)
    \/ \E ok \in BOOLEAN : main_end(ok)

\* one run of main
SpecRun == InitRun /\ [][NextRun]_vars

\* a run on a sheet in which a failed upsert has left two rows of one key
SpecRerun == InitRerun /\ [][NextSheets]_vars

\* the upserts of class Sheets
Spec == Init /\ [][NextSheets]_vars

\* the controller of class AdaptiveDelay
SpecDelay == InitController /\ [][NextDelay]_vars


----------------------------------------------------------------------------
(* Properties of the upsert.                                               *)

\* the rows of the sheet that carry key k
RowsOf(rows, k) == {i \in 1..Len(rows) : Strip(rows[i][2]) # <<>> /\ KeyOf(rows[i][2]) = k}

\* the row that a completed call leaves at the head: the values it inserted,
\* with the link cells that it then updated
HeadRow(call) ==
    [i \in 1..NCOLS |->
        LET c == COLUMN_ORDER[i]
            updated == \E k \in 1..Len(LINK_COLUMNS) : LINK_COLUMNS[k] = c
        IN IF updated /\ LinkValue(c, call.profile) # <<>>
           THEN LinkValue(c, call.profile)
           ELSE call.row_values[i]]

\* C1: starting from a sheet with at most one row per key, after every
\* completed upsert of any sequence the sheet still holds at most one row per
\* key.  Stated for the runs in which no store call has failed.
C1_AtMostOneRowPerKey ==
    nFailures = 0 =>
        \A i, j \in 1..Len(ws) :
            (i # j /\ Strip(ws[i][2]) # <<>>) => KeyOf(ws[i][2]) # KeyOf(ws[j][2])

\* C2: after every completed upsert of key K the head row holds the values
\* just written for K, the index maps K to the head row (sheet row 2) and no
\* other row carries K.  Stated for the runs in which no store call has failed.
C2_HeadHoldsKeyAlone ==
    (op.status \in Completed /\ nFailures = 0) =>
        /\ ws[1] = HeadRow(op)
        /\ op.key \in DOMAIN existing
        /\ existing[op.key].row = 2
        /\ RowsOf(ws, op.key) = {1}

\* C3: an upsert of the record that the call before it has upserted, in the
\* same run, returns "unchanged" with no changed field.
C3_SecondUpsertUnchanged ==
    (op.again /\ op.status \in Completed) =>
        (op.status = "unchanged" /\ op.changed_fields = <<>>)

\* reached: a record upserted twice in a row, the first upsert having changed
\* the sheet
C3_Witness ==
    /\ op.again
    /\ op.status = "unchanged"
    /\ op.found
    /\ op.before["AGE"] # <<>>
    /\ op.before["DATETIME SCRAP"] # op.row_values[NCOLS]

\* the elements of a sequence
Range(s) == {s[i] : i \in 1..Len(s)}

\* the call of the step, when the step is a write_profile call
Called(call) == call.status # "none"

----------------------------------------------------------------------------
(* Properties of the controller of the delays.                             *)

\* C4: in every state of the controller, whatever the calls made on it,
\* base_min <= min_delay <= 3.0 and base_max <= max_delay <= 6.0.
C4_DelaysWithinBounds ==
    /\ base_min <= min_delay
    /\ min_delay <= 3000000
    /\ base_max <= max_delay
    /\ max_delay <= 6000000

\* C4 for a controller constructed with a range below the two ceilings
C4_WithinBoundsFromLowRange ==
    (base_min <= 3000000 /\ base_max <= 6000000) => C4_DelaysWithinBounds

----------------------------------------------------------------------------
(* Properties of one write_profile call.                                   *)

\* the note requests that a call which returned "updated" is to have sent:
\* one for each changed field, on sheet row 2
ExpectedNotes(call) ==
    IF call.status # "updated" THEN {}
    ELSE {[row |-> 2, col |-> COLUMN_TO_INDEX(f),
           note |-> <<"B","e","f","o","r","e",":"," ">> \o call.before[f] \o <<"\n">>
                    \o <<"A","f","t","e","r",":"," ">>
                    \o call.row_values[COLUMN_TO_INDEX(f)]] :
              f \in Range(call.changed_fields)}

\* the note requests of the batch_update calls in a log of store calls
NotesRequested(log) ==
    UNION {Range(log[k].reqs) : k \in {j \in 1..Len(log) : log[j].call = "batch_update"}}

\* rows with one of them taken out, or none
OneRowLess(rows) ==
    {rows} \cup {SubSeq(rows, 1, i - 1) \o SubSeq(rows, i + 1, Len(rows)) : i \in 1..Len(rows)}

EmptyEquivalent(v) ==
    Lower(Strip(v)) \in { <<>>, <<"n","o","t"," ","s","e","t">>, <<"n","/","a">>,
                         <<"n","o","n","e">>, <<"n","u","l","l">> }

\* the fields that write_profile takes from the record as they come and compares
PlainFields == COLUMNS \ (HIGHLIGHT_EXCLUDE_COLUMNS \cup {"IMAGE", "TAGS"})

\* C7: the comparison takes "not set", "n/a", "none" and "null", in any letter
\* case, for the empty string on both sides: a field whose indexed value and
\* whose incoming value both stand for no value is never reported as changed.
C7_PlaceholdersEqualEmpty ==
    op.status \in {"updated", "unchanged"} =>
        \A f \in PlainFields :
            (EmptyEquivalent(op.before[f]) /\ EmptyEquivalent(op.profile[f]))
                => f \notin Range(op.changed_fields)

C9_BlankNicknameRejected ==
    [][(nOps' = nOps + 1 /\ Called(op') /\ Strip(op'.profile["NICK NAME"]) = <<>>) =>
          /\ op'.status = "error"
          /\ op'.changed_fields = <<>>
          /\ calls' = <<>>
          /\ existing' = existing
          /\ ws' = ws
          /\ notes' = notes]_vars

\* reached: a whitespace nickname rejected on a sheet that holds rows
C9_Witness ==
    /\ op.status = "error"
    /\ op.profile["NICK NAME"] = <<" ">>
    /\ calls = <<>>
    /\ Len(ws) >= 1
    /\ existing # NoEntries

\* C10: a write_profile call for a key that is not in the index inserts one
\* row at sheet row 2, deletes no row, adds the key to the index at row 2 and
\* returns "new" with every column as a changed field.
C10_AbsentKeyInserted ==
    [][(nOps' = nOps + 1 /\ op'.status \in Completed /\ op'.key \notin DOMAIN existing) =>
          /\ op'.status = "new"
          /\ op'.changed_fields = COLUMN_ORDER
          /\ Len(ws') = Len(ws) + 1
          /\ Tail(ws') = ws
          /\ (\A k \in 1..Len(calls') : ~calls'[k].raised) => ws'[1] = HeadRow(op')
          /\ \A i \in 1..NCOLS :
                COLUMN_ORDER[i] \notin Range(LINK_COLUMNS) => ws'[1][i] = op'.row_values[i]
          /\ Cardinality({k \in 1..Len(calls') : calls'[k].call = "insert_row"}) = 1
          /\ \A k \in 1..Len(calls') :
                /\ calls'[k].call # "delete_rows"
                /\ calls'[k].call = "insert_row" => calls'[k].row = 2
          /\ DOMAIN existing' = DOMAIN existing \cup {op'.key}
          /\ existing'[op'.key] = [row |-> 2, data |-> op'.row_values]
          /\ \A k \in DOMAIN existing : existing'[k] = existing[k]]_vars

\* reached: a new key inserted above the row of another key
C10_Witness ==
    /\ op.status = "new"
    /\ ~op.found
    /\ Len(ws) >= 2
    /\ Cardinality(DOMAIN existing) >= 2
    /\ RowsOf(ws, op.key) = {1}

----------------------------------------------------------------------------
(* Properties of the status that write_profile returns.                    *)

\* the columns outside HIGHLIGHT_EXCLUDE_COLUMNS in which the indexed row and
\* the row of the call differ
Differing(call) ==
    {i \in 1..NCOLS : /\ COLUMN_ORDER[i] \notin HIGHLIGHT_EXCLUDE_COLUMNS
                      /\ call.before[COLUMN_ORDER[i]] # call.row_values[i]}

\* C11: for a key that is in the index a completed write_profile call returns
\* "updated" exactly when some column outside HIGHLIGHT_EXCLUDE_COLUMNS
\* differs and "unchanged" exactly when none does, and its changed_fields are
\* the differing columns, each once, in the order of COLUMN_ORDER.
C11_StatusFollowsDiff ==
    (op.found /\ op.status \in Completed) =>
        /\ op.status \in {"updated", "unchanged"}
        /\ op.status = "updated" <=> Differing(op) # {}
        /\ op.status = "unchanged" <=> Differing(op) = {}
        /\ Range(op.changed_fields) = {COLUMN_ORDER[i] : i \in Differing(op)}
        /\ Len(op.changed_fields) = Cardinality(Differing(op))
        /\ \A j, k \in 1..Len(op.changed_fields) :
              j < k => COLUMN_TO_INDEX(op.changed_fields[j])
                           < COLUMN_TO_INDEX(op.changed_fields[k])

\* reached: an update with three changed fields, and not in alphabetical order
C11_Witness ==
    /\ op.found
    /\ op.status = "updated"
    /\ Len(op.changed_fields) >= 3
    /\ op.changed_fields[1] = "NICK NAME"
    /\ op.changed_fields[2] = "TAGS"
    /\ op.changed_fields[3] = "CITY"

----------------------------------------------------------------------------
(* Properties of a write_profile call in which a store call raises.        *)

\* the store calls of a log that raised, by name
Raised(log) == {log[k].call : k \in {j \in 1..Len(log) : log[j].raised}}

\* C12: when the annotation (batch_update) or the deletion of the old row
\* (delete_rows) raises after the insert at row 2, the call undoes nothing,
\* the exception leaves write_profile, so that main reports the record as
\* failed, and the index entry of the key is the one of the last step that
\* completed: the entry as it was, or the entry of the inserted row.
C12_FailureAfterInsertSurfaces ==
    [][(nOps' = nOps + 1 /\ Called(op')
            /\ Raised(calls') \cap {"batch_update", "delete_rows"} # {}) =>
          /\ op'.status = "raised"
          /\ Len(ws') = Len(ws) + 1
          /\ Tail(ws') = ws
          /\ op'.key \in DOMAIN existing'
          /\ \/ existing'[op'.key] = existing[op'.key]
             \/ existing'[op'.key] = [row |-> 2, data |-> op'.row_values]]_vars

\* the sheet of LeftByFailedUpsert is one that the upserts produce: it is the
\* state after write_profile(P_ali_age) with delete_rows raising
LeftByFailedUpsert_Reached ==
    /\ ws = LeftByFailedUpsert
    /\ nOps = 1
    /\ op.status = "updated"
    /\ Raised(calls) = {"delete_rows"}

\* C13: when a failed upsert has left two rows of one key in the sheet, the
\* first upsert of that key in a later run, which has built its index from
\* the sheet, leaves exactly one row of the key.
C13_DuplicateHealed ==
    (nOps = 1 /\ op.status \in Completed /\ nFailures = 0
        /\ Cardinality(RowsOf(LeftByFailedUpsert, op.key)) = 2) =>
        Cardinality(RowsOf(ws, op.key)) = 1

----------------------------------------------------------------------------
(* Properties of the single calls of the controller.                       *)

\* C14: on_rate_limit adds one to hits and then sets min_delay to
\* min(3.0, min_delay * (1 + min(0.2 * hits, 1.0))) and max_delay to
\* min(6.0, max_delay * (1 + min(0.2 * hits, 1.0))).  From 0.5 / 0.7 three
\* calls in a row use the factors 1.2, 1.4 and 1.6 on the running values, and
\* no call more than doubles a delay, however large hits is.
C14_RateLimitFormula ==
    /\ [][hits' = hits + 1 =>
             /\ min_delay' = Min(3000000, (min_delay * (10 + Min(2 * hits', 10))) \div 10)
             /\ max_delay' = Min(6000000, (max_delay * (10 + Min(2 * hits', 10))) \div 10)
             /\ min_delay' <= 2 * min_delay
             /\ max_delay' <= 2 * max_delay]_vars
    /\ []((base_min = 500000 /\ base_max = 700000 /\ nSteps = hits) =>
             /\ hits = 1 => (min_delay = 600000 /\ max_delay = 840000)
             /\ hits = 2 => (min_delay = 840000 /\ max_delay = 1176000)
             /\ hits = 3 => (min_delay = 1344000 /\ max_delay = 1881600))

\* reached: six rate limits in a row from 0.5 / 0.7, the sixth with
\* 0.2 * hits above 1.0
C14_Witness ==
    /\ base_min = 500000
    /\ hits = 6
    /\ nSteps = 6
    /\ min_delay = 3000000
    /\ max_delay = 6000000

\* C15: on_success shrinks the delays, each to max(base, 0.95 * delay), only
\* when more than 10 seconds have passed since the delays were last set, and
\* otherwise leaves them as they are; either way it takes one from hits if
\* hits is positive, and hits is never negative.  Only on_success assigns
\* last (when it shrinks) and only on_success lowers hits.
C15_ShrinkOnlyAfterQuietTime ==
    /\ [](hits >= 0)
    /\ [][/\ last' # last =>
               /\ clock - adjusted > 10
               /\ min_delay' = Max(base_min, (min_delay * 95) \div 100)
               /\ max_delay' = Max(base_max, (max_delay * 95) \div 100)
               /\ hits' = IF hits > 0 THEN hits - 1 ELSE 0
          /\ (hits' < hits /\ last' = last) =>
               /\ hits' = hits - 1
               /\ min_delay' = min_delay
               /\ max_delay' = max_delay]_vars

\* C15 with the 10 seconds counted from self.last, the time of construction
\* or of the last shrink by on_success, whatever on_rate_limit, on_batch and
\* optimize_batch_size did to the delays since
C15_ShrinkOnlyAfterLastShrink ==
    /\ [](hits >= 0)
    /\ [][/\ last' # last =>
               /\ clock - last > 10
               /\ last' = clock
               /\ min_delay' = Max(base_min, (min_delay * 95) \div 100)
               /\ max_delay' = Max(base_max, (max_delay * 95) \div 100)
               /\ hits' = IF hits > 0 THEN hits - 1 ELSE 0
          /\ (hits' < hits /\ last' = last) =>
               /\ clock - last <= 10
               /\ hits' = hits - 1
               /\ min_delay' = min_delay
               /\ max_delay' = max_delay]_vars


\* a store call of record_nick_seen that did not raise
SeenWritten(log) ==
    /\ log # <<>>
    /\ log[1].call \in {"nick_list_ws.update", "nick_list_ws.append_row"}
    /\ ~log[1].raised

\* C19: a record_nick_seen call whose store write succeeds creates the entry
\* of a key (trimmed, lower case) seen for the first time with times 1 and
\* first = last = the time of the call; for a key already seen it adds exactly
\* one to times, sets last to the time of the call and leaves first as it was;
\* the entries of other keys stay as they are, the index agrees with what
\* NickList holds, and times is at least 1 in every entry.
C19_SeenEntryLifecycle ==
    /\ [](\A k \in DOMAIN nick_list_existing : nick_list_existing[k].times >= 1)
    /\ [](nick_list_existing = _load_nick_list(nick_list_ws))
    /\ [][(nOps' = nOps + 1 /\ SeenWritten(calls')) =>
            LET key == Lower(Strip(calls'[1].value[1]))
                ts == Stamp(now)
            IN /\ DOMAIN nick_list_existing' = DOMAIN nick_list_existing \cup {key}
               /\ \A k \in DOMAIN nick_list_existing \ {key} :
                     nick_list_existing'[k] = nick_list_existing[k]
               /\ IF key \notin DOMAIN nick_list_existing
                  THEN /\ nick_list_existing'[key].times = 1
                       /\ nick_list_existing'[key].first = ts
                       /\ nick_list_existing'[key].last = ts
                  ELSE /\ nick_list_existing'[key].times = nick_list_existing[key].times + 1
                       /\ nick_list_existing'[key].first = nick_list_existing[key].first
                       /\ nick_list_existing'[key].last = ts]_vars

\* a key seen on days 8 and 9 is seen twice more, and another key for the first time
C19_Witness ==
    /\ SeenWritten(calls)
    /\ DOMAIN nick_list_existing = {s_ali, s_sara}
    /\ nick_list_existing[s_ali].times = 4
    /\ nick_list_existing[s_ali].first = Stamp(8)
    /\ nick_list_existing[s_ali].last = Stamp(12)
    /\ nick_list_existing[s_sara].times = 1
    /\ nick_list_ws[1][2] = <<"4">>


\* the store call of update_dashboard, when it did not raise
Published(log) == log # <<>> /\ log[1].call = "dashboard.append_row" /\ ~log[1].raised

\* C20: after an update_dashboard call whose store write succeeds, Dashboard
\* holds one value for each metric name, the one just published: one row,
\* the row of this call, and none of an earlier run.
C20_OneValuePerMetric ==
    [][(nOps' = nOps + 1 /\ Published(calls')) =>
          /\ dashboard' = <<calls'[1].value>>
          /\ \A i \in 1..Len(METRIC_ORDER) :
                Cardinality({dashboard'[r][i] : r \in 1..Len(dashboard')}) = 1]_vars


\* C16: in a run, when the number of records written reaches a multiple of
\* batch_size, on_batch is called in that pass through the loop and widens the
\* delays by a tenth (to at most 3.0 / 6.0), whether or not a store call raised.
C16_BatchBoundaryWidens ==
    [][(processed' = processed + 1 /\ processed' % batch_size = 0) =>
          /\ "adaptive.on_batch" \in Range(events')
          /\ min_delay' >= Min(3000000, (min_delay * 11) \div 10)
          /\ max_delay' >= Min(6000000, (max_delay * 11) \div 10)]_vars

\* C17: in a run, the pass that brings success_count from 9 to 10 calls
\* optimize_batch_size: batch_size grows by a fifth and each delay becomes
\* max(base, 0.9 * delay), before the on_success call of that pass, which may
\* shrink it once more.  In no other pass does batch_size change, is
\* optimize_batch_size called, or does a success lower a delay by more than
\* the 0.95 of on_success: batch_size is 10 up to the ninth success and 12
\* from the tenth on.
C17_SampleTuningOnce ==
    /\ [](batch_size = IF success_count < 10 THEN 10 ELSE 12)
    /\ [][idx' = idx + 1 =>
            LET shrink == last' # last
                tuned == success_count = 9 /\ success_count' = 10
                relaxedMin == Max(base_min, (min_delay * 9) \div 10)
                relaxedMax == Max(base_max, (max_delay * 9) \div 10)
                after(d, base) == IF shrink THEN Max(base, (d * 95) \div 100) ELSE d
            IN /\ tuned <=> "adaptive.optimize_batch_size" \in Range(events')
               /\ tuned => /\ batch_size' = (batch_size * 12) \div 10
                           /\ min_delay' = after(relaxedMin, base_min)
                           /\ max_delay' = after(relaxedMax, base_max)
               /\ (~tuned /\ success_count' = success_count + 1) =>
                           /\ batch_size' = batch_size
                           /\ min_delay' = after(min_delay, base_min)
                           /\ max_delay' = after(max_delay, base_max)
               /\ success_count' = success_count => batch_size' = batch_size]_vars

\* the tenth success comes while the delays are still raised by a store call
\* that raised: 0.6 is relaxed to 0.54
C17_Witness ==
    /\ success_count = 10
    /\ "adaptive.optimize_batch_size" \in Range(events)
    /\ metrics["Failed"] = 1
    /\ batch_size = 12
    /\ min_delay > base_min
    /\ min_delay <= 540000


\* the places of the store calls and of the success and rate-limit signals
\* among the events of a pass
StoreWrites(evs) ==
    {i \in 1..Len(evs) :
        evs[i] \notin {"time.sleep", "adaptive.sleep", "adaptive.on_success",
                       "adaptive.on_rate_limit", "adaptive.optimize_batch_size",
                       "adaptive.on_batch"}}

Signals(evs) ==
    {i \in 1..Len(evs) : evs[i] \in {"adaptive.on_success", "adaptive.on_rate_limit"}}

\* C18: in every pass through the loop and at the end of the run, an
\* adaptive.sleep() lies between any two store calls that follow one another,
\* and every store call is followed, before the next one, by one
\* on_success or on_rate_limit call that reports it.
C18_StoreCallsThroughController ==
    \A i \in StoreWrites(events) :
       LET next == IF \E j \in StoreWrites(events) : j > i
                   THEN CHOOSE j \in StoreWrites(events) :
                            j > i /\ \A k \in StoreWrites(events) : k > i => j <= k
                   ELSE Len(events) + 1
       IN /\ next <= Len(events) => \E k \in (i + 1)..(next - 1) : events[k] = "adaptive.sleep"
          /\ Cardinality(Signals(events) \cap (i + 1)..(next - 1)) = 1


\* the counters of metrics that tell what became of a record
OutcomeCounters == {"New Profiles", "Updated Profiles", "Unchanged Profiles", "Failed"}

\* the outcomes that a row of RunList can report: status and remarks
ReportedOutcomes ==
    {<<"Complete", "NEW">>, <<"Complete", "UPDATED">>, <<"Complete", "UNCHANGED">>,
     <<"Failed", "Scraping error">>, <<"Failed", "Sheet error">>}

C22_FatalStoreErrorAborts ==
    /\ [][hits' > hits => error' = "QuotaExceeded"]_vars
    /\ [][error = "Unauthorized" => (idx' = idx /\ dashboard' = dashboard)]_vars


\* the places of the rows with a non-empty key, and the key of such a row
Keyed(rows) == {i \in 1..Len(rows) : Strip(rows[i][2]) # <<>>}

\* C23: when _load_existing has just run, the index holds one entry for each
\* key (trimmed, lower case) of a row with a non-empty NICK NAME and none for
\* other rows; the entry of a key holds the place and the values of the last
\* row of that key; and when two rows share a key, the build says so in what
\* it reports.
C23_IndexBuildFlagsDuplicates ==
    op.status = "none" =>
       /\ DOMAIN existing = {KeyOf(ws[i][2]) : i \in Keyed(ws)}
       /\ \A i \in Keyed(ws) :
             LET e == existing[KeyOf(ws[i][2])]
             IN /\ e.row - 1 \in RowsOf(ws, KeyOf(ws[i][2]))
                /\ e.row - 1 >= i
                /\ e.data = ws[e.row - 1]
       /\ (\E i, j \in Keyed(ws) : i # j /\ KeyOf(ws[i][2]) = KeyOf(ws[j][2])) =>
             \E m \in Range(logged) : m.message # "Loaded existing profiles"


C25_IndexedPositionIsActual ==
    nFailures = 0 =>
       \A k \in DOMAIN existing :
          /\ existing[k].row - 1 \in 1..Len(ws)
          /\ existing[k].row - 1 \in RowsOf(ws, k)


\* the keys of the rows of a sheet
KeysOf(rows) == {KeyOf(rows[i][2]) : i \in Keyed(rows)}

\* C26: a write_profile call in which no store call raises takes no row of another key from the sheet and
\* at most one row of its own, so the sheet does not get shorter by it and
\* every key that had a row keeps one; every key of the index has a row.
C26_OnlyOwnRowDeleted ==
    /\ [](nFailures = 0 => \A k \in DOMAIN existing : RowsOf(ws, k) # {})
    /\ [][(nOps' = nOps + 1 /\ Called(op') /\ nFailures' = 0) =>
             /\ Len(ws') >= Len(ws)
             /\ KeysOf(ws) \subseteq KeysOf(ws')
             /\ \A k \in KeysOf(ws) \ {op'.key} :
                   Cardinality(RowsOf(ws', k)) = Cardinality(RowsOf(ws, k))]_vars


\* C27: after a write_profile call of key K in which no store call raised,
\* the values that the index keeps for K are the values of K's row in the
\* sheet, the link cells written after the insert included, so that against
\* an index read back from the sheet the same record has no changed field.
C27_CachedValuesAreStored ==
    (op.status \in Completed /\ nFailures = 0) =>
        /\ existing[op.key].data = ws[1]
        /\ op.key \in DOMAIN _load_existing(ws)
        /\ Changed(Before(_load_existing(ws)[op.key]), op.row_values) = <<>>


=============================================================================
